---------------------------- MODULE Spec2Model ----------------------------
(***************************************************************************)
(* A model of the Faker-persons ETL (etl.py, utils.py): the date-range     *)
(* partitioner, the retrying HTTP fetcher, the extraction driver and the   *)
(* anonymization transform.  Text values are sequences of one-character    *)
(* strings, datetimes at midnight are proleptic Gregorian day ordinals     *)
(* (datetime.toordinal), and every conversion between the two is computed  *)
(* (strptime / strftime), never taken as the identity.                     *)
(***************************************************************************)
EXTENDS Integers, Sequences, FiniteSets, TLC

VARIABLES
    today,        \* date.today() as a day ordinal
    gdr_pc,       \* generate_date_range: "idle" | "called" | "returned"
    gdr_start,    \* its start_date argument (text)
    gdr_end,      \* its end_date argument (text)
    gdr_interval, \* its date_interval argument
    gdr_out,      \* the list it returned: <<start text, end text>> pairs
    config,       \* config['FAKER']: the values read from config.ini
    faults,       \* what the network and upstream may do in this run: the
                  \* exceptions requests may raise and the non-200 statuses
    h_pc,         \* http_request: "idle" | "attempt" | "returned" | "raised"
    h_url,        \* its url argument
    retries,      \* its retries argument: the nth retry for the same url
    h_log,        \* what the logical call did so far: requests and sleeps
    h_ret,        \* the response_json it returned
    h_exc,        \* the exception it raised
    sent,         \* every request put on the wire, in order: its url
    pipe_pc,      \* etl_pipeline: "idle" | "extract" | "anonymize" | "failed"
    e_pc,         \* extract_persons_from_api: "idle" | "start" | "loop" | "fetching" | "returned" | "raised"
    e_arg,        \* its start_date argument (text; <<>> is None)
    import_day,   \* the day of datetime.now() when utils was imported
    date_range,   \* its date_range
    quantity,     \* its quantity (text)
    e_idx,        \* the position of its for loop in date_range
    persons,      \* its persons list
    got,          \* per window fetched so far, the response http_request returned
    a_idx,        \* anonymize_data: the position of its loop in persons
    anonymized_persons, \* its anonymized_persons list
    df,           \* df_anonymized_persons: the flattened rows
    a_exc,        \* the exception that left anonymize_data or analyze_data
    age_pc,       \* get_age_range: "idle" | "called" | "returned" | "raised"
    age_dob,      \* its dob argument
    age_ret       \* what it returned or raised

gdr_vars == <<gdr_pc, gdr_start, gdr_end, gdr_interval, gdr_out>>
http_vars == <<h_pc, h_url, retries, h_log, h_ret, h_exc, sent>>
extract_vars == <<pipe_pc, e_pc, e_arg, import_day, date_range, quantity, e_idx, persons, got>>

anon_vars == <<a_idx, anonymized_persons, df, a_exc>>
age_vars == <<age_pc, age_dob, age_ret>>

vars == <<today, config, faults, gdr_vars, http_vars, extract_vars, anon_vars, age_vars>>

(***************************************************************************)
(* Bounds of the model.                                                    *)
(***************************************************************************)
MaxDay == 5        \* dates are drawn from base .. base + MaxDay
MaxInterval == 3   \* date_interval is drawn from 1 .. MaxInterval
MaxBack == 2       \* the extraction starts up to MaxBack days before the import day
MaxData == 1       \* an upstream response holds up to MaxData records
MaxAge == 42       \* dates of birth go back every year up to MaxAge years
MaxEmailLen == 3   \* emails of up to MaxEmailLen characters
MaxDepth == 2      \* records nest up to MaxDepth mappings deep
MaxPersons == 2    \* a batch holds up to MaxPersons records

(***************************************************************************)
(* Generic helpers.                                                        *)
(***************************************************************************)
Min(a, b) == IF a <= b THEN a ELSE b

Range(s) == {s[i] : i \in 1..Len(s)}

(***************************************************************************)
(* The calendar of datetime: leap years, month lengths, ordinals.          *)
(***************************************************************************)
IsLeap(y) == (y % 4 = 0 /\ y % 100 # 0) \/ y % 400 = 0

DaysInMonth(y, m) ==
    IF m = 2 THEN (IF IsLeap(y) THEN 29 ELSE 28)
    ELSE IF m \in {4, 6, 9, 11} THEN 30 ELSE 31

DaysBeforeYear(y) ==
    (y - 1) * 365 + (y - 1) \div 4 - (y - 1) \div 100 + (y - 1) \div 400

RECURSIVE DaysBeforeMonth(_, _)
DaysBeforeMonth(y, m) ==
    IF m <= 1 THEN 0 ELSE DaysBeforeMonth(y, m - 1) + DaysInMonth(y, m - 1)

\* datetime(y, m, d).toordinal()
ToOrdinal(ymd) == DaysBeforeYear(ymd[1]) + DaysBeforeMonth(ymd[1], ymd[2]) + ymd[3]

\* datetime.fromordinal(n) as <<year, month, day>>
FromOrdinal(n) ==
    LET y == CHOOSE yy \in ((n - 1) \div 366 + 1)..((n - 1) \div 365 + 1) :
                 DaysBeforeYear(yy) < n /\ n <= DaysBeforeYear(yy + 1)
        r == n - DaysBeforeYear(y)
        m == CHOOSE mm \in 1..12 :
                 DaysBeforeMonth(y, mm) < r /\ r <= DaysBeforeMonth(y, mm) + DaysInMonth(y, mm)
    IN  <<y, m, r - DaysBeforeMonth(y, m)>>

(***************************************************************************)
(* Text: decimal digits, '%Y-%m-%d' formatting and parsing.                *)
(***************************************************************************)
DigitChars == <<"0", "1", "2", "3", "4", "5", "6", "7", "8", "9">>

IsDigit(c) == c \in Range(DigitChars)

DigitVal(c) == (CHOOSE i \in 1..10 : DigitChars[i] = c) - 1

\* str(n) for n >= 0
RECURSIVE IntToStr(_)
IntToStr(n) ==
    IF n < 10 THEN <<DigitChars[n + 1]>>
    ELSE IntToStr(n \div 10) \o <<DigitChars[(n % 10) + 1]>>

\* n written with at least w digits, zero padded
RECURSIVE ZeroPad(_, _)
ZeroPad(s, w) == IF Len(s) >= w THEN s ELSE ZeroPad(<<"0">> \o s, w)

\* int(s) for a sequence of digits
RECURSIVE StrToInt(_)
StrToInt(s) ==
    IF s = <<>> THEN 0
    ELSE 10 * StrToInt(SubSeq(s, 1, Len(s) - 1)) + DigitVal(s[Len(s)])

AllDigits(s) == \A i \in 1..Len(s) : IsDigit(s[i])

\* datetime.strftime(dt, '%Y-%m-%d')
strftime(n) ==
    LET ymd == FromOrdinal(n)
    IN  ZeroPad(IntToStr(ymd[1]), 4) \o <<"-">> \o ZeroPad(IntToStr(ymd[2]), 2)
            \o <<"-">> \o ZeroPad(IntToStr(ymd[3]), 2)

\* The positions of '-' in s
Dashes(s) == {i \in 1..Len(s) : s[i] = "-"}

\* datetime.strptime(s, '%Y-%m-%d'): a 4-digit year, a 1-2 digit month in
\* 1..12 and a 1-2 digit day valid for the month; err is the ValueError.
strptime(s) ==
    LET bad == [err |-> "ValueError: does not match format", ymd |-> <<0, 0, 0>>]
    IN  IF Cardinality(Dashes(s)) # 2 THEN bad
        ELSE
          LET i == CHOOSE a \in Dashes(s) : \A b \in Dashes(s) : a <= b
              j == CHOOSE a \in Dashes(s) : \A b \in Dashes(s) : b <= a
              ys == SubSeq(s, 1, i - 1)
              ms == SubSeq(s, i + 1, j - 1)
              ds == SubSeq(s, j + 1, Len(s))
          IN  IF ~(AllDigits(ys) /\ AllDigits(ms) /\ AllDigits(ds)) THEN bad
              ELSE IF Len(ys) # 4 \/ Len(ms) \notin {1, 2} \/ Len(ds) \notin {1, 2} THEN bad
              ELSE IF StrToInt(ms) \notin 1..12 \/ StrToInt(ds) \notin 1..31 THEN bad
              ELSE IF StrToInt(ds) > DaysInMonth(StrToInt(ys), StrToInt(ms))
                   THEN [err |-> "ValueError: day is out of range for month",
                         ymd |-> <<0, 0, 0>>]
              ELSE [err |-> "", ymd |-> <<StrToInt(ys), StrToInt(ms), StrToInt(ds)>>]

(***************************************************************************)
(* utils.generate_date_range                                               *)
(***************************************************************************)
\* range(0, n, step) as a sequence, step >= 1
range_step(n, step) ==
    [k \in 1..(IF n <= 0 THEN 0 ELSE (n + step - 1) \div step) |-> (k - 1) * step]

\* min(end_date, dt + timedelta(days=date_interval-1)), without the clamp
window_end_unclamped(end_date, dt, date_interval) == dt + date_interval - 1

\* min(end_date, dt + timedelta(days=date_interval-1))
window_end(end_date, dt, date_interval) == Min(end_date, dt + date_interval - 1)

\* dates_generated: the candidate window starts
dates_generated(start_date, end_date, date_interval) ==
    LET offs == range_step(end_date - start_date + 1, date_interval)
    IN  [k \in 1..Len(offs) |-> start_date + offs[k]]

\* The filter of the second comprehension: the window starting today is dropped
NotToday(dt, now_date) == dt # now_date

RECURSIVE FilterDates(_, _)
FilterDates(ds, now_date) ==
    IF ds = <<>> THEN <<>>
    ELSE (IF NotToday(Head(ds), now_date) THEN <<Head(ds)>> ELSE <<>>)
             \o FilterDates(Tail(ds), now_date)

\* generate_date_range on datetimes (day ordinals); now_date is date.today()
generate_date_range(start_date, end_date, date_interval, now_date) ==
    LET kept == FilterDates(dates_generated(start_date, end_date, date_interval), now_date)
    IN  [k \in 1..Len(kept) |->
            <<strftime(kept[k]), strftime(window_end(end_date, kept[k], date_interval))>>]

(***************************************************************************)
(* The values of the parts of the program a specification leaves alone.    *)
(***************************************************************************)
NoUrl == [quantity |-> <<>>, birthday_start |-> <<>>, birthday_end |-> <<>>]

NoBody == [status |-> "", code |-> 0, data |-> <<>>]

IdleConfig ==
    [import_data_size |-> <<"0">>, date_interval |-> <<"1">>,
     rate_limit_sleep_time |-> <<"0">>, start_date |-> <<>>]

NoFaults == [exceptions |-> {}, statuses |-> {}]

GdrIdle ==
    /\ gdr_pc = "idle" /\ gdr_start = <<>> /\ gdr_end = <<>>
    /\ gdr_interval = 1 /\ gdr_out = <<>>

HttpIdle ==
    /\ h_pc = "idle" /\ h_url = NoUrl /\ retries = 0 /\ h_log = <<>>
    /\ h_ret = NoBody /\ h_exc = "" /\ sent = <<>>

AnonIdle == a_idx = 0 /\ anonymized_persons = <<>> /\ df = <<>> /\ a_exc = ""

AgeIdle ==
    /\ age_pc = "idle"
    /\ age_dob = [kind |-> "null", s |-> <<>>, n |-> 0, d |-> <<>>]
    /\ age_ret = [err |-> "", s |-> <<>>]

ExtractIdle ==
    /\ pipe_pc = "idle" /\ e_pc = "idle" /\ e_arg = <<>> /\ import_day = 0
    /\ date_range = <<>> /\ quantity = <<>> /\ e_idx = 0 /\ persons = <<>>
    /\ got = <<>>

(***************************************************************************)
(* The partitioner called on its own.                                      *)
(***************************************************************************)
\* The dates the inputs are drawn around: 2023-12-29 and 2024-02-26
DateBases == {ToOrdinal(<<2023, 12, 29>>), ToOrdinal(<<2024, 2, 26>>)}

InitDates ==
    /\ HttpIdle /\ ExtractIdle /\ AnonIdle /\ AgeIdle
    /\ config = IdleConfig
    /\ faults = NoFaults
    /\ \E b \in DateBases :
         /\ today \in b..(b + MaxDay)
         /\ gdr_start \in {strftime(n) : n \in b..(b + MaxDay)}
         /\ gdr_end \in {strftime(n) : n \in b..(b + MaxDay)}
    /\ gdr_interval \in 1..MaxInterval
    /\ gdr_pc = "called"
    /\ gdr_out = <<>>

\* generate_date_range(start_date: str, end_date: str, date_interval: int)
CallGenerateDateRange ==
    /\ gdr_pc = "called"
    /\ gdr_out' = generate_date_range(ToOrdinal(strptime(gdr_start).ymd),
                                      ToOrdinal(strptime(gdr_end).ymd),
                                      gdr_interval, today)
    /\ gdr_pc' = "returned"
    /\ UNCHANGED <<today, config, faults, gdr_start, gdr_end, gdr_interval, http_vars, extract_vars,
                   anon_vars, age_vars>>

NextDates == CallGenerateDateRange

SpecDates == InitDates /\ [][NextDates]_vars

(***************************************************************************)
(* Claims about the partitioner.                                           *)
(***************************************************************************)
\* The returned windows read back as day ordinals
WinStart(k) == ToOrdinal(strptime(gdr_out[k][1]).ymd)
WinEnd(k) == ToOrdinal(strptime(gdr_out[k][2]).ymd)
ArgStart == ToOrdinal(strptime(gdr_start).ymd)
ArgEnd == ToOrdinal(strptime(gdr_end).ymd)

\* The days of [start, end] that some returned window holds
Covered == {d \in ArgStart..ArgEnd : \E k \in 1..Len(gdr_out) : WinStart(k) <= d /\ d <= WinEnd(k)}

\* Contiguous, starting at start, covering [start, end] exactly, ending at end
ExactPartition ==
    /\ Len(gdr_out) >= 1
    /\ WinStart(1) = ArgStart
    /\ WinEnd(Len(gdr_out)) = ArgEnd
    /\ \A k \in 1..Len(gdr_out) : WinStart(k) <= WinEnd(k)
    /\ \A k \in 2..Len(gdr_out) : WinStart(k) = WinEnd(k - 1) + 1
    /\ Covered = ArgStart..ArgEnd

\* The candidate window starts: start, start + interval, ... while <= end
CandidateStarts == {ArgStart + i * gdr_interval : i \in 0..(MaxDay + 1)} \cap (ArgStart..ArgEnd)

\* C1 as stated: for start <= end and interval >= 1, whatever the current date,
\* the windows are contiguous, start at start, cover [start, end] exactly and
\* end at end.
C1_ExactPartitionWhateverToday ==
    (gdr_pc = "returned" /\ ArgStart <= ArgEnd) => ExactPartition

\* C1 amended: the returned windows are, in order, the candidate windows
\* [c, min(end, c + interval - 1)] whose start c is not the current date; when
\* no candidate start is the current date they are contiguous, start at start,
\* cover [start, end] exactly and end at end; when one is, exactly the days of
\* that window are left uncovered.
C1_PartitionExceptTodayWindow ==
    (gdr_pc = "returned" /\ ArgStart <= ArgEnd) =>
        /\ {WinStart(k) : k \in 1..Len(gdr_out)} = CandidateStarts \ {today}
        /\ \A k \in 1..Len(gdr_out) :
               WinEnd(k) = Min(ArgEnd, WinStart(k) + gdr_interval - 1)
        /\ \A k \in 2..Len(gdr_out) : WinStart(k - 1) < WinStart(k)
        /\ today \notin CandidateStarts => ExactPartition
        /\ today \in CandidateStarts =>
               (ArgStart..ArgEnd) \ Covered = today..Min(ArgEnd, today + gdr_interval - 1)

\* Witness: a call that returned three windows, none of them dropped
C1_Witness ==
    /\ gdr_pc = "returned"
    /\ ArgStart < ArgEnd
    /\ today \notin CandidateStarts
    /\ Len(gdr_out) = 3
    /\ WinEnd(3) < WinStart(3) + gdr_interval - 1

(***************************************************************************)
(* utils.http_request: one logical call, its attempts and its sleeps.      *)
(***************************************************************************)
\* The exceptions of the except clause: retried
CaughtExceptions == {"ConnectTimeout", "ConnectionError", "JSONDecodeError"}

\* Exceptions of requests.request that the except clause does not name
UncaughtExceptions == {"ReadTimeout"}

\* sleep(60)
RetryDelay == 60

\* Entries of h_log
Request(what, status_code, body) ==
    [ev |-> "request", what |-> what, n |-> status_code, body |-> body]

Sleep(why, secs) == [ev |-> "sleep", what |-> why, n |-> secs, body |-> NoBody]

\* `if retries <= 2`, taken one retry too far
RetryAllowedOffByOne(r) == r <= 3

\* `if retries <= 2`
RetryAllowed(r) == r <= 2

\* The throttle slept only when the status is 200
ThrottleOnSuccessOnly(status_code, secs) ==
    IF status_code = 200 THEN <<Sleep("throttle", secs)>> ELSE <<>>

\* sleep(float(config['FAKER']['rate_limit_sleep_time'])): after the try block,
\* before the status is looked at
Throttle(status_code, secs) == <<Sleep("throttle", secs)>>

\* The records upstream returns for a url
Records(url, n) == [j \in 1..n |-> [birthday |-> url.birthday_start, id |-> j]]

\* The bodies upstream may send with status 200
OkBodies(url) ==
    {[status |-> st, code |-> c, data |-> Records(url, n)] :
        st \in {"OK", "ERROR"}, c \in {200, 500}, n \in 0..MaxData}

\* The body upstream sends with another status
ErrorBody(status_code) == [status |-> "ERROR", code |-> status_code, data |-> <<>>]

\* requests.request or response.json() raises an exception the except clause names
AttemptCaughtError ==
    /\ h_pc = "attempt"
    /\ \E e \in CaughtExceptions \cap faults.exceptions :
         /\ sent' = Append(sent, h_url)
         /\ IF RetryAllowed(retries)
            THEN /\ h_log' = h_log \o <<Request(e, 0, NoBody), Sleep("retry", RetryDelay)>>
                 /\ retries' = retries + 1
                 /\ UNCHANGED <<h_pc, h_exc>>
            ELSE /\ h_log' = Append(h_log, Request(e, 0, NoBody))
                 /\ h_pc' = "raised"
                 /\ h_exc' = e
                 /\ UNCHANGED retries
    /\ UNCHANGED <<h_url, h_ret, today, config, faults, gdr_vars, extract_vars, anon_vars, age_vars>>

\* requests.request raises an exception the except clause does not name
AttemptUncaughtError ==
    /\ h_pc = "attempt"
    /\ \E e \in UncaughtExceptions \cap faults.exceptions :
         /\ sent' = Append(sent, h_url)
         /\ h_log' = Append(h_log, Request(e, 0, NoBody))
         /\ h_pc' = "raised"
         /\ h_exc' = e
    /\ UNCHANGED <<h_url, retries, h_ret, today, config, faults, gdr_vars, extract_vars, anon_vars, age_vars>>

\* The response parses and its status is 200
AttemptStatusOk ==
    /\ h_pc = "attempt"
    /\ \E body \in OkBodies(h_url) :
         /\ sent' = Append(sent, h_url)
         /\ h_log' = Append(h_log, Request("response", 200, body))
                        \o Throttle(200, StrToInt(config.rate_limit_sleep_time))
         /\ h_ret' = body
         /\ h_pc' = "returned"
    /\ UNCHANGED <<h_url, retries, h_exc, today, config, faults, gdr_vars, extract_vars, anon_vars, age_vars>>

\* The response parses and its status is not 200
AttemptStatusError ==
    /\ h_pc = "attempt"
    /\ \E sc \in faults.statuses :
         /\ sent' = Append(sent, h_url)
         /\ IF RetryAllowed(retries)
            THEN /\ h_log' = Append(h_log, Request("response", sc, ErrorBody(sc)))
                                \o Throttle(sc, StrToInt(config.rate_limit_sleep_time))
                                \o <<Sleep("retry", RetryDelay)>>
                 /\ retries' = retries + 1
                 /\ UNCHANGED <<h_pc, h_exc>>
            ELSE /\ h_log' = Append(h_log, Request("response", sc, ErrorBody(sc)))
                                \o Throttle(sc, StrToInt(config.rate_limit_sleep_time))
                 /\ h_pc' = "raised"
                 /\ h_exc' = "Exception: Error in Faker API's Persons endpoint"
                 /\ UNCHANGED retries
    /\ UNCHANGED <<h_url, h_ret, today, config, faults, gdr_vars, extract_vars, anon_vars, age_vars>>

InitHttp ==
    /\ GdrIdle /\ ExtractIdle /\ AnonIdle /\ AgeIdle
    /\ today = 0
    /\ config \in [import_data_size : {<<"0">>}, date_interval : {<<"1">>},
                   rate_limit_sleep_time : {<<"1">>, <<"2">>}, start_date : {<<>>}]
    /\ faults = [exceptions |-> CaughtExceptions \cup UncaughtExceptions,
                 statuses |-> {404, 500}]
    /\ h_pc = "attempt"
    /\ h_url \in {[quantity |-> <<"1">>, birthday_start |-> d, birthday_end |-> d] :
                    d \in {<<"2", "0", "2", "4", "-", "0", "1", "-", "0", "1">>}}
    /\ retries = 0
    /\ h_log = <<>>
    /\ h_ret = NoBody
    /\ h_exc = ""
    /\ sent = <<>>

NextHttp ==
    \/ AttemptCaughtError
    \/ AttemptUncaughtError
    \/ AttemptStatusOk
    \/ AttemptStatusError

SpecHttp == InitHttp /\ [][NextHttp]_vars

(***************************************************************************)
(* Claims about http_request.                                              *)
(***************************************************************************)
RequestIdx == {i \in 1..Len(h_log) : h_log[i].ev = "request"}

RetrySleepIdx == {i \in 1..Len(h_log) : h_log[i].ev = "sleep" /\ h_log[i].what = "retry"}

ThrottleIdx == {i \in 1..Len(h_log) : h_log[i].ev = "sleep" /\ h_log[i].what = "throttle"}

LastRequest == h_log[CHOOSE i \in RequestIdx : \A j \in RequestIdx : j <= i]

\* An attempt that failed in one of the three classes: connection failure,
\* unparseable body, non-200 status
FailedInClass(e) ==
    \/ e.what \in CaughtExceptions
    \/ e.what = "response" /\ e.n # 200

Succeeded(e) == e.what = "response" /\ e.n = 200

\* C2: one logical call makes at most 4 attempts and 3 retries, whatever the
\* mix of connection failures, unparseable bodies and non-200 statuses; every
\* attempt after the first comes right after a sleep of 60; a call returns the
\* body of its first successful attempt k after k-1 retries; a call whose
\* attempts all failed in these classes raises only after 4 attempts and 3
\* retries.
C2_BoundedRetries ==
    /\ Cardinality(RequestIdx) <= 4
    /\ Cardinality(RetrySleepIdx) <= 3
    /\ Cardinality(RetrySleepIdx) = retries
    /\ \A i \in RetrySleepIdx : h_log[i].n = 60
    /\ \A i \in RequestIdx :
           i > 1 => (i - 1) \in RetrySleepIdx
    /\ h_pc = "attempt" =>
           /\ Cardinality(RequestIdx) = retries
           /\ h_log # <<>> => h_log[Len(h_log)].ev = "sleep" /\ h_log[Len(h_log)].what = "retry"
    /\ h_pc = "returned" =>
           /\ Succeeded(LastRequest)
           /\ h_ret = LastRequest.body
           /\ \A i \in RequestIdx : h_log[i] # LastRequest => FailedInClass(h_log[i])
           /\ Cardinality(RetrySleepIdx) = Cardinality(RequestIdx) - 1
    /\ (h_pc = "raised" /\ \A i \in RequestIdx : FailedInClass(h_log[i])) =>
           /\ Cardinality(RequestIdx) = 4
           /\ Cardinality(RetrySleepIdx) = 3

\* Witness: two failures of different classes, then success on the third attempt
C2_Witness ==
    /\ h_pc = "returned"
    /\ Cardinality(RequestIdx) = 3
    /\ retries = 2
    /\ h_log[1].what = "ConnectionError"
    /\ \E i \in RequestIdx : h_log[i].what = "response" /\ h_log[i].n = 500
    /\ h_ret.data # <<>>

\* C3 as stated: the throttle is slept only on the status-success path: once
\* per call that returns, never on an attempt that fails.
C3_ThrottleOnlyOnSuccess ==
    /\ \A i \in ThrottleIdx : Succeeded(h_log[i - 1])
    /\ h_pc = "returned" => Cardinality(ThrottleIdx) = 1
    /\ h_pc # "returned" => ThrottleIdx = {}

\* C3 amended: the throttle is slept once right after every attempt whose
\* response parsed, whatever its status (so also on a non-200 attempt that is
\* then retried or escalated), and never on an attempt that raised (connection
\* failure or unparseable body); a call that returns has slept it once for the
\* successful attempt and once for each earlier non-200 attempt.
C3_ThrottleAfterEveryParsedResponse ==
    /\ \A i \in RequestIdx :
           (h_log[i].what = "response") <=> ((i + 1) \in ThrottleIdx)
    /\ \A i \in ThrottleIdx :
           /\ (i - 1) \in RequestIdx
           /\ h_log[i].n = StrToInt(config.rate_limit_sleep_time)
    /\ Cardinality(ThrottleIdx) =
           Cardinality({i \in RequestIdx : h_log[i].what = "response"})

\* Witness: a call that returned after a non-200 attempt and an unparseable
\* body: three attempts, two throttle sleeps
C3_Witness ==
    /\ h_pc = "returned"
    /\ Cardinality(RequestIdx) = 3
    /\ Cardinality(ThrottleIdx) = 2
    /\ \E i \in RequestIdx : h_log[i].what = "JSONDecodeError"

(***************************************************************************)
(* etl.extract_persons_from_api, called by etl_pipeline.                   *)
(***************************************************************************)
\* `len(date_range) - 1 if len(date_range) > 1 else 1`
quantity_divisor(n) == IF n > 1 THEN n - 1 ELSE 1

\* The url of one window: its query parameters
PersonsUrl(q, window) ==
    [quantity |-> q, birthday_start |-> window[1], birthday_end |-> window[2]]

\* `response['status'] == 'OK' and response['code'] == 200`
LogicalOk(response) == response.status = "OK" /\ response.code = 200

\* The import day of the runs checked: 2024-03-01
ExtractBase == ToOrdinal(<<2024, 3, 1>>)

\* A text strptime rejects: the one of the tests
MalformedDate == <<"2", "5", "-", "0", "3", "-", "3", "1">>

InitExtract ==
    /\ GdrIdle /\ HttpIdle /\ AnonIdle /\ AgeIdle
    /\ import_day = ExtractBase
    /\ today \in {import_day, import_day + 1}
    /\ config \in [import_data_size : {<<"3">>, <<"4">>},
                   date_interval : {<<"1">>, <<"2">>},
                   rate_limit_sleep_time : {<<"1">>},
                   start_date : {strftime(import_day - 1)}]
    /\ faults = [exceptions |-> {"ConnectionError", "ReadTimeout"}, statuses |-> {500}]
    /\ e_arg \in {<<>>, MalformedDate} \cup {strftime(import_day - k) : k \in 0..MaxBack}
    /\ pipe_pc = "extract"
    /\ e_pc = "start"
    /\ date_range = <<>>
    /\ quantity = <<>>
    /\ e_idx = 0
    /\ persons = <<>>
    /\ got = <<>>

\* The lines before the loop: the date range and the quantity.  end_date is
\* the default of generate_date_range, datetime.now() at import.
ExtractStart ==
    /\ pipe_pc = "extract" /\ e_pc = "start"
    /\ LET text == IF e_arg # <<>> THEN e_arg ELSE config.start_date
           parsed == strptime(text)
           dr == generate_date_range(ToOrdinal(parsed.ymd), import_day,
                                     StrToInt(config.date_interval), today)
       IN  IF parsed.err # ""
           THEN /\ e_pc' = "raised"
                /\ pipe_pc' = "failed"
                /\ UNCHANGED <<date_range, quantity, e_idx>>
           ELSE /\ date_range' = dr
                /\ quantity' = IntToStr(StrToInt(config.import_data_size)
                                            \div quantity_divisor(Len(dr)))
                /\ e_idx' = 1
                /\ e_pc' = "loop"
                /\ UNCHANGED pipe_pc
    /\ UNCHANGED <<today, config, faults, gdr_vars, http_vars, e_arg, import_day, persons, got,
                   anon_vars, age_vars>>

\* The loop takes the next window and calls utils.http_request(persons_api_url)
ExtractFetch ==
    /\ e_pc = "loop" /\ e_idx <= Len(date_range)
    /\ h_url' = PersonsUrl(quantity, date_range[e_idx])
    /\ h_pc' = "attempt"
    /\ retries' = 0
    /\ h_log' = <<>>
    /\ h_ret' = NoBody
    /\ e_pc' = "fetching"
    /\ UNCHANGED <<today, config, faults, gdr_vars, h_exc, sent, pipe_pc, e_arg, import_day,
                   date_range, quantity, e_idx, persons, got, anon_vars, age_vars>>

\* http_request returned a response whose status is 'OK' and code 200
ExtractAppend ==
    /\ e_pc = "fetching" /\ h_pc = "returned"
    /\ LogicalOk(h_ret)
    /\ persons' = persons \o h_ret.data
    /\ got' = Append(got, h_ret)
    /\ e_idx' = e_idx + 1
    /\ e_pc' = "loop"
    /\ h_pc' = "idle"
    /\ UNCHANGED <<today, config, faults, gdr_vars, h_url, retries, h_log, h_ret, h_exc, sent,
                   pipe_pc, e_arg, import_day, date_range, quantity, anon_vars, age_vars>>

\* http_request returned another response: the if has no else
ExtractSkip ==
    /\ e_pc = "fetching" /\ h_pc = "returned"
    /\ ~LogicalOk(h_ret)
    /\ got' = Append(got, h_ret)
    /\ e_idx' = e_idx + 1
    /\ e_pc' = "loop"
    /\ h_pc' = "idle"
    /\ UNCHANGED <<today, config, faults, gdr_vars, h_url, retries, h_log, h_ret, h_exc, sent,
                   pipe_pc, e_arg, import_day, date_range, quantity, persons, anon_vars,
                   age_vars>>

\* http_request raised: the exception leaves extract_persons_from_api, and
\* etl_pipeline logs it and raises it again
ExtractFetchRaised ==
    /\ e_pc = "fetching" /\ h_pc = "raised"
    /\ e_pc' = "raised"
    /\ pipe_pc' = "failed"
    /\ h_pc' = "idle"
    /\ UNCHANGED <<today, config, faults, gdr_vars, h_url, retries, h_log, h_ret, h_exc, sent,
                   e_arg, import_day, date_range, quantity, e_idx, persons, got, anon_vars, age_vars>>

\* The loop is over: return persons
ExtractReturn ==
    /\ e_pc = "loop" /\ e_idx > Len(date_range)
    /\ e_pc' = "returned"
    /\ pipe_pc' = "anonymize"
    /\ UNCHANGED <<today, config, faults, gdr_vars, http_vars, e_arg, import_day, date_range,
                   quantity, e_idx, persons, got, anon_vars, age_vars>>

NextExtract ==
    \/ ExtractStart
    \/ ExtractFetch
    \/ AttemptCaughtError
    \/ AttemptUncaughtError
    \/ AttemptStatusOk
    \/ AttemptStatusError
    \/ ExtractAppend
    \/ ExtractSkip
    \/ ExtractFetchRaised
    \/ ExtractReturn

SpecExtract == InitExtract /\ [][NextExtract]_vars

(***************************************************************************)
(* Claims about the extraction driver.                                     *)
(***************************************************************************)
Max(a, b) == IF a >= b THEN a ELSE b

RECURSIVE ConcatData(_)
ConcatData(bodies) ==
    IF bodies = <<>> THEN <<>> ELSE Head(bodies).data \o ConcatData(Tail(bodies))

\* The window a request on the wire is for
WindowOf(url) == <<url.birthday_start, url.birthday_end>>

\* C4: the quota sent as _quantity is floor(totalTarget / max(1, numWindows)),
\* numWindows the number of windows of the partitioner, the same in every
\* window's request.
C4_QuotaIsTargetOverWindows ==
    \A i \in 1..Len(sent) :
        sent[i].quantity =
            IntToStr(StrToInt(config.import_data_size) \div Max(1, Len(date_range)))

\* What the code sends: floor(totalTarget / (numWindows - 1)) for two windows
\* or more, the same in every request
QuotaIsTargetOverWindowsLessOne ==
    \A i \in 1..Len(sent) :
        sent[i].quantity =
            IntToStr(StrToInt(config.import_data_size)
                        \div (IF Len(date_range) > 1 THEN Len(date_range) - 1 ELSE 1))

\* C5: extraction is all-or-nothing: when a window's fetch ends in failure,
\* by exhausted retries or by a response whose logical status is not OK, the
\* extraction aborts; it never returns a list that leaves a window out.
C5_AllOrNothing ==
    e_pc = "returned" =>
        /\ Len(got) = Len(date_range)
        /\ \A k \in 1..Len(got) : LogicalOk(got[k])

\* The part of C5 the code keeps: a fetch that raised aborts the run
RaisedFetchAborts ==
    (e_pc = "raised" /\ date_range # <<>>) =>
        /\ pipe_pc = "failed"
        /\ Len(got) < Len(date_range)

\* C10: one logical fetch per window, one after the other in window order, and
\* the returned list is the concatenation of the windows' record lists in
\* window order; after a fetch that raised no later window is requested.
C10_SequentialConcatenation ==
    /\ \A i \in 1..Len(sent) : \E k \in 1..Len(date_range) :
           WindowOf(sent[i]) = date_range[k]
    /\ \A i, j \in 1..Len(sent) : \A k, l \in 1..Len(date_range) :
           (i < j /\ WindowOf(sent[i]) = date_range[k] /\ WindowOf(sent[j]) = date_range[l])
               => k <= l
    /\ e_pc = "raised" =>
           \A i \in 1..Len(sent) : \A k \in (Len(got) + 2)..Len(date_range) :
               WindowOf(sent[i]) # date_range[k]
    /\ e_pc = "returned" =>
           /\ Len(got) = Len(date_range)
           /\ persons = ConcatData(got)

\* The parts of C10 the code keeps: the order of the requests, and the list as
\* the concatenation of the record lists of the windows that reported OK
SequentialFetches ==
    /\ \A i \in 1..Len(sent) : \E k \in 1..Len(date_range) :
           WindowOf(sent[i]) = date_range[k]
    /\ \A i, j \in 1..Len(sent) : \A k, l \in 1..Len(date_range) :
           (i < j /\ WindowOf(sent[i]) = date_range[k] /\ WindowOf(sent[j]) = date_range[l])
               => k <= l
    /\ e_pc = "raised" =>
           \A i \in 1..Len(sent) : \A k \in (Len(got) + 2)..Len(date_range) :
               WindowOf(sent[i]) # date_range[k]
    /\ e_pc = "returned" =>
           /\ Len(got) = Len(date_range)
           /\ persons = ConcatData(SelectSeq(got, LogicalOk))

(***************************************************************************)
(* JSON values: a record of a kind and the value of that kind.  A mapping  *)
(* (a Python dict) is the sequence of its <<key, value>> items in          *)
(* insertion order, keys distinct.                                         *)
(***************************************************************************)
Str(s) == [kind |-> "str", s |-> s, n |-> 0, d |-> <<>>]

Num(n) == [kind |-> "num", s |-> <<>>, n |-> n, d |-> <<>>]

Null == [kind |-> "null", s |-> <<>>, n |-> 0, d |-> <<>>]

Dict(d) == [kind |-> "dict", s |-> <<>>, n |-> 0, d |-> d]

Keys(d) == {d[i][1] : i \in 1..Len(d)}

\* d[key], for a key of d
Lookup(d, key) == d[CHOOSE i \in 1..Len(d) : d[i][1] = key][2]

\* d[key] = value: in place for a key of d, at the end for a new one
DictSet(d, key, value) ==
    IF key \in Keys(d)
    THEN [i \in 1..Len(d) |-> IF d[i][1] = key THEN <<key, value>> ELSE d[i]]
    ELSE Append(d, <<key, value>>)

(***************************************************************************)
(* etl.get_age_range                                                       *)
(***************************************************************************)
FutureDateError == "ValueError: Given date of birth is in future"

\* `(today.month, today.day) <= (dob.month, dob.day)`: a birthday today not yet had
md_precedes_or_equal(t, b) == t[1] < b[1] \/ (t[1] = b[1] /\ t[2] <= b[2])

\* `(today.month, today.day) < (dob.month, dob.day)`
md_precedes(t, b) == t[1] < b[1] \/ (t[1] = b[1] /\ t[2] < b[2])

\* The brackets without the branch for the multiples of ten
age_bracket_no_decade_branch(age_in_years) ==
    IF age_in_years = 0 THEN <<"[", "0", "1", "-", "1", "0", "]">>
    ELSE <<"[">> \o IntToStr(age_in_years \div 10) \o <<"1", "-">>
             \o IntToStr(age_in_years \div 10 + 1) \o <<"0", "]">>

\* The three f-strings of age_range
age_bracket(age_in_years) ==
    IF age_in_years = 0 THEN <<"[", "0", "1", "-", "1", "0", "]">>
    ELSE IF age_in_years % 10 = 0
    THEN <<"[">> \o IntToStr(age_in_years \div 10 - 1) \o <<"1", "-">>
             \o IntToStr(age_in_years \div 10) \o <<"0", "]">>
    ELSE <<"[">> \o IntToStr(age_in_years \div 10) \o <<"1", "-">>
             \o IntToStr(age_in_years \div 10 + 1) \o <<"0", "]">>

\* age_in_years, for a parsed dob
age_in_years_of(t, b) ==
    t[1] - b[1] - (IF md_precedes(<<t[2], t[3]>>, <<b[2], b[3]>>) THEN 1 ELSE 0)

\* get_age_range(dob) when date.today() is the ordinal now_date: err is the
\* exception raised, s the age range returned
get_age_range(dob, now_date) ==
    IF dob.kind # "str"
    THEN [err |-> "TypeError: strptime() argument 1 must be str", s |-> <<>>]
    ELSE LET parsed == strptime(dob.s)
             age == age_in_years_of(FromOrdinal(now_date), parsed.ymd)
         IN  IF parsed.err # "" THEN [err |-> parsed.err, s |-> <<>>]
             ELSE IF age < 0 THEN [err |-> FutureDateError, s |-> <<>>]
             ELSE [err |-> "", s |-> age_bracket(age)]

(***************************************************************************)
(* etl.anonymize_pii                                                       *)
(***************************************************************************)
pii_fields ==
    {"firstname", "lastname", "phone", "street", "streetName",
     "buildingNumber", "zipcode", "latitude", "longitude"}

RedactionMarker == Str(<<"*", "*", "*", "*">>)

\* The positions of c in s
Positions(s, c) == {i \in 1..Len(s) : s[i] = c}

\* The text after the first '@' of one line
strip_to_first_at(line) ==
    IF Positions(line, "@") = {} THEN line
    ELSE SubSeq(line, (CHOOSE i \in Positions(line, "@") :
                           \A j \in Positions(line, "@") : i <= j) + 1, Len(line))

\* '.*@' on one line: '.*' is greedy, so the match ends at the last '@'
strip_to_last_at(line) ==
    IF Positions(line, "@") = {} THEN line
    ELSE SubSeq(line, (CHOOSE i \in Positions(line, "@") :
                           \A j \in Positions(line, "@") : j <= i) + 1, Len(line))

\* re.sub('.*@', '', s): '.' matches no line break, so every line is cut on
\* its own
RECURSIVE re_sub_domain(_)
re_sub_domain(s) ==
    IF Positions(s, "\n") = {} THEN strip_to_last_at(s)
    ELSE LET nl == CHOOSE i \in Positions(s, "\n") : \A j \in Positions(s, "\n") : i <= j
         IN  strip_to_last_at(SubSeq(s, 1, nl - 1)) \o <<"\n">>
                 \o re_sub_domain(SubSeq(s, nl + 1, Len(s)))

\* anonymize_pii(person) for a mapping given by its items: err is the
\* exception raised, d the items of the mapping returned.  AnonymizeFrom is
\* the for loop from item i on, acc the anonymized_person built so far.
RECURSIVE anonymize_pii(_, _)
RECURSIVE AnonymizeFrom(_, _, _, _)
AnonymizeFrom(person, i, acc, now_date) ==
    IF i > Len(person) THEN [err |-> "", d |-> acc]
    ELSE
      LET key == person[i][1]
          value == person[i][2]
      IN  IF value.kind = "dict"
          THEN LET sub == anonymize_pii(value.d, now_date)
               IN  IF sub.err # "" THEN [err |-> sub.err, d |-> <<>>]
                   ELSE AnonymizeFrom(person, i + 1, DictSet(acc, key, Dict(sub.d)), now_date)
          ELSE IF key \in pii_fields
          THEN AnonymizeFrom(person, i + 1, DictSet(acc, key, RedactionMarker), now_date)
          ELSE IF key = "email"
          THEN IF value.kind # "str"
               THEN [err |-> "TypeError: expected string or bytes-like object", d |-> <<>>]
               ELSE AnonymizeFrom(person, i + 1,
                                  DictSet(acc, "email_domain", Str(re_sub_domain(value.s))),
                                  now_date)
          ELSE IF key = "birthday"
          THEN LET age == get_age_range(value, now_date)
               IN  IF age.err # "" THEN [err |-> age.err, d |-> <<>>]
                   ELSE AnonymizeFrom(person, i + 1, DictSet(acc, "age_range", Str(age.s)),
                                      now_date)
          ELSE AnonymizeFrom(person, i + 1, DictSet(acc, key, value), now_date)

anonymize_pii(person, now_date) == AnonymizeFrom(person, 1, <<>>, now_date)

(***************************************************************************)
(* etl.anonymize_data and etl.analyze_data, called by etl_pipeline.        *)
(***************************************************************************)
\* datetime.now(UTC).strftime(...)[:-3], the same for the whole batch
timestamp_utc_str == Str(<<"t", "s">>)

\* pl.json_normalize(..., separator='_') of one record: a column per scalar,
\* named by the path of keys to it
RECURSIVE Flatten(_, _)
Flatten(d, prefix) ==
    IF d = <<>> THEN <<>>
    ELSE LET key == Head(d)[1]
             value == Head(d)[2]
         IN  (IF value.kind = "dict" THEN Flatten(value.d, Append(prefix, key))
              ELSE <<<<Append(prefix, key), value>>>>)
                 \o Flatten(Tail(d), prefix)

\* One turn of the loop of anonymize_data: the person is anonymized, stamped
\* and appended
AnonymizePerson ==
    /\ pipe_pc = "anonymize" /\ a_idx <= Len(persons)
    /\ anonymize_pii(persons[a_idx].d, today).err = ""
    /\ anonymized_persons' =
           Append(anonymized_persons,
                  Dict(DictSet(anonymize_pii(persons[a_idx].d, today).d,
                               "extracted_ts_utc", timestamp_utc_str)))
    /\ a_idx' = a_idx + 1
    /\ UNCHANGED <<today, config, faults, gdr_vars, http_vars, extract_vars, df, a_exc, age_vars>>

\* anonymize_pii raises: the exception leaves anonymize_data, and etl_pipeline
\* logs it and raises it again
AnonymizeRaises ==
    /\ pipe_pc = "anonymize" /\ a_idx <= Len(persons)
    /\ anonymize_pii(persons[a_idx].d, today).err # ""
    /\ a_exc' = anonymize_pii(persons[a_idx].d, today).err
    /\ pipe_pc' = "failed"
    /\ UNCHANGED <<today, config, faults, gdr_vars, http_vars, e_pc, e_arg, import_day,
                   date_range, quantity, e_idx, persons, got, a_idx, anonymized_persons, df,
                   age_vars>>

\* The loop is over: the records are flattened into the dataframe
LoadDataFrame ==
    /\ pipe_pc = "anonymize" /\ a_idx > Len(persons)
    /\ df' = [k \in 1..Len(anonymized_persons) |-> Flatten(anonymized_persons[k].d, <<>>)]
    /\ pipe_pc' = "analyze"
    /\ UNCHANGED <<today, config, faults, gdr_vars, http_vars, e_pc, e_arg, import_day,
                   date_range, quantity, e_idx, persons, got, a_idx, anonymized_persons, a_exc,
                   age_vars>>

\* analyze_data runs its queries and logs the results
Analyze ==
    /\ pipe_pc = "analyze"
    /\ pipe_pc' = "done"
    /\ UNCHANGED <<today, config, faults, gdr_vars, http_vars, e_pc, e_arg, import_day,
                   date_range, quantity, e_idx, persons, got, anon_vars, age_vars>>

NextAnon ==
    \/ AnonymizePerson
    \/ AnonymizeRaises
    \/ LoadDataFrame
    \/ Analyze

(***************************************************************************)
(* The records a batch is drawn from.                                      *)
(***************************************************************************)
\* Every sequence over S of up to n elements
SeqsUpTo(S, n) == UNION {{SubSeq(f, 1, k) : f \in [1..k -> S]} : k \in 0..n}

EmailChars == {"a", "@", "\n"}

\* The email of the test record
TestEmail == <<"f", "o", "o", "@", "l", "u", "e", "t", "t", "g", "e", "n", ".", "c", "o", "m">>

EmailValues ==
    {Str(e) : e \in SeqsUpTo(EmailChars, MaxEmailLen) \cup {TestEmail}} \cup {Num(5), Null}

EmailCores ==
    {<< <<"email", v>> >> : v \in EmailValues}
        \cup {<< <<"email", Str(<<"a", "@", "a">>)>>, <<"email_domain", Str(<<"x">>)>> >>,
              << <<"email_domain", Str(<<"x">>)>>, <<"email", Str(<<"a", "@", "a">>)>> >>}

PiiValues == {Str(<<"x">>), Str(<<>>), Num(7), Null, Dict(<< <<"id", Num(1)>> >>)}

PiiCores == {<< <<k, v>>, <<"gender", Str(<<"m">>)>> >> : k \in pii_fields, v \in PiiValues}

\* Dates of birth around the current date: days and years before and after
BirthdayOffsets == {-731, -366, -365, -364, -1, 0, 1, 364, 365, 366}

BirthdayCores(now_date) ==
    {<< <<"birthday", v>> >> :
        v \in {Str(strftime(now_date + k)) : k \in BirthdayOffsets} \cup {Str(MalformedDate)}}

\* A record that holds the items d under n nested mappings
RECURSIVE Wrap(_, _)
Wrap(d, n) ==
    IF n = 0 THEN d
    ELSE << <<"id", Num(n)>>,
            <<(IF n % 2 = 0 THEN "address" ELSE "coordinates"), Dict(Wrap(d, n - 1))>> >>

PersonPool(now_date) ==
    {Dict(Wrap(core, n)) :
        core \in EmailCores \cup PiiCores \cup BirthdayCores(now_date), n \in 0..MaxDepth}

\* The other records of a batch: one that anonymizes, one born tomorrow
Fillers(now_date) ==
    {Dict(<< <<"id", Num(121)>>, <<"firstname", Str(<<"x">>)>>,
             <<"birthday", Str(strftime(now_date - 366))>> >>),
     Dict(<< <<"id", Num(122)>>,
             <<"address", Dict(<< <<"birthday", Str(strftime(now_date + 1))>> >>)>> >>)}

Batches(now_date) ==
    {<<>>} \cup
    {pre \o <<p>> \o post :
        p \in PersonPool(now_date),
        pre \in SeqsUpTo(Fillers(now_date), MaxPersons - 1),
        post \in {q \in SeqsUpTo(Fillers(now_date), MaxPersons - 1) : TRUE}}

\* The current dates of the runs checked: a leap day and a day late in a year
AnonTodays == {ToOrdinal(<<2024, 2, 29>>), ToOrdinal(<<2025, 12, 31>>)}

\* etl_pipeline after extract_persons_from_api returned persons
InitAnon ==
    /\ GdrIdle /\ HttpIdle /\ AgeIdle
    /\ config = IdleConfig
    /\ faults = NoFaults
    /\ today \in AnonTodays
    /\ persons \in {b \in Batches(today) : Len(b) <= MaxPersons}
    /\ pipe_pc = "anonymize"
    /\ e_pc = "returned"
    /\ e_arg = <<>> /\ import_day = 0 /\ date_range = <<>> /\ quantity = <<>>
    /\ e_idx = 0 /\ got = <<>>
    /\ a_idx = 1
    /\ anonymized_persons = <<>>
    /\ df = <<>>
    /\ a_exc = ""

SpecAnon == InitAnon /\ [][NextAnon]_vars

(***************************************************************************)
(* get_age_range called on its own.                                        *)
(***************************************************************************)
\* f'{y}-{m}-{d}' zero padded, valid or not
DateText(y, m, d) ==
    ZeroPad(IntToStr(y), 4) \o <<"-">> \o ZeroPad(IntToStr(m), 2) \o <<"-">>
        \o ZeroPad(IntToStr(d), 2)

AgeTodays == {<<2024, 2, 29>>, <<2025, 10, 11>>}

\* Ages of a hundred years and around, beyond the years all drawn
CenturyAges == {99, 100, 101, 110, 120, 121, 124}

InitAge ==
    /\ GdrIdle /\ HttpIdle /\ ExtractIdle /\ AnonIdle
    /\ config = IdleConfig
    /\ faults = NoFaults
    /\ \E t \in AgeTodays :
         /\ today = ToOrdinal(t)
         /\ age_dob \in {Str(DateText(y, m, d)) :
                            y \in ((t[1] - MaxAge)..(t[1] + 1))
                                      \cup {t[1] - a : a \in CenturyAges},
                            m \in 1..12, d \in 1..31}
                        \cup {Str(MalformedDate), Null}
    /\ age_pc = "called"
    /\ age_ret = [err |-> "", s |-> <<>>]

\* get_age_range(dob) returns the age range
AgeReturns ==
    /\ age_pc = "called"
    /\ get_age_range(age_dob, today).err = ""
    /\ age_ret' = get_age_range(age_dob, today)
    /\ age_pc' = "returned"
    /\ UNCHANGED <<today, config, faults, gdr_vars, http_vars, extract_vars, anon_vars, age_dob>>

\* get_age_range(dob) raises
AgeRaises ==
    /\ age_pc = "called"
    /\ get_age_range(age_dob, today).err # ""
    /\ age_ret' = get_age_range(age_dob, today)
    /\ age_pc' = "raised"
    /\ UNCHANGED <<today, config, faults, gdr_vars, http_vars, extract_vars, anon_vars, age_dob>>

NextAge == AgeReturns \/ AgeRaises

SpecAge == InitAge /\ [][NextAge]_vars

(***************************************************************************)
(* Claims about get_age_range.                                             *)
(***************************************************************************)
DobYmd == strptime(age_dob.s).ymd

TodayYmd == FromOrdinal(today)

WellFormedDob == age_dob.kind = "str" /\ strptime(age_dob.s).err = ""

\* The birthdays had so far by someone born on b when the date is t: the
\* anniversaries after the birth year whose <<year, month, day>> is not after t
BirthdaysHad(b, t) ==
    Cardinality({y \in (b[1] + 1)..t[1] :
                    \/ y < t[1]
                    \/ b[2] < t[2]
                    \/ (b[2] = t[2] /\ b[3] <= t[3])})

\* The whole-years age of the call's dob, well formed
WholeYears ==
    CHOOSE a \in {BirthdaysHad(b, t) : b \in {DobYmd}, t \in {TodayYmd}} : TRUE

\* The lower end of the decade of ten ages that holds age a >= 1: 10 * ceil(a / 10) - 9
BracketLow(a) == 10 * ((a + 9) \div 10) - 9

\* C8: for a date of birth not after the current date, get_age_range returns
\* the decadal bracket of the whole-years age a: '[01-10]' for a = 0, and for
\* a >= 1 the bracket [lo-hi] with lo = 10 * ceil(a / 10) - 9, hi = lo + 9 and
\* lo <= a <= hi.
C8_DecadalBracket ==
    (age_pc # "called" /\ WellFormedDob /\ ToOrdinal(DobYmd) <= today) =>
        /\ age_pc = "returned"
        /\ age_ret.err = ""
        /\ \A a \in {WholeYears} : \A lo \in {IF a = 0 THEN 1 ELSE BracketLow(a)} :
               /\ age_ret.s = <<"[">> \o ZeroPad(IntToStr(lo), 2) \o <<"-">>
                                  \o IntToStr(lo + 9) \o <<"]">>
               /\ a >= 1 => (lo <= a /\ a <= lo + 9)

\* Witness: an age of 30, a multiple of ten, in '[21-30]'
C8_Witness ==
    /\ age_pc = "returned"
    /\ WellFormedDob
    /\ WholeYears = 30
    /\ age_ret.s = <<"[", "2", "1", "-", "3", "0", "]">>

\* get_age_range raises the future-date error exactly for a well-formed date
\* of birth after the current date
FutureErrorIffAfterToday ==
    (age_pc # "called" /\ WellFormedDob) =>
        ((age_pc = "raised" /\ age_ret.err = FutureDateError) <=> ToOrdinal(DobYmd) > today)

(***************************************************************************)
(* Claims about anonymize_pii and the run around it.                       *)
(***************************************************************************)
\* The records anonymized so far, each with what anonymize_data appended for it
Processed == 1..Len(anonymized_persons)

\* Every PII key of the mapping `in`, at any depth, holds the marker in `out`
RECURSIVE PiiRedacted(_, _)
PiiRedacted(in, out) ==
    \A i \in 1..Len(in) :
        LET key == in[i][1]
            value == in[i][2]
        IN  /\ key \in pii_fields =>
                   /\ key \in Keys(out)
                   /\ Lookup(out, key) = RedactionMarker
            /\ (key \notin pii_fields /\ value.kind = "dict") =>
                   /\ key \in Keys(out)
                   /\ Lookup(out, key).kind = "dict"
                   /\ PiiRedacted(value.d, Lookup(out, key).d)

\* C6: for every key in the PII list, at any depth, the output holds '****'
\* under that key, whatever the input value: string, number, null, empty
\* string or nested mapping.
C6_PiiAlwaysRedacted ==
    \A k \in Processed :
        PiiRedacted(persons[k].d, anonymized_persons[k].d)

\* The part of C6 the code keeps: the same for PII keys whose value is no mapping
RECURSIVE PiiScalarsRedacted(_, _)
PiiScalarsRedacted(in, out) ==
    \A i \in 1..Len(in) :
        LET key == in[i][1]
            value == in[i][2]
        IN  /\ (key \in pii_fields /\ value.kind # "dict") =>
                   /\ key \in Keys(out)
                   /\ Lookup(out, key) = RedactionMarker
            /\ value.kind = "dict" =>
                   /\ key \in Keys(out)
                   /\ Lookup(out, key).kind = "dict"
                   /\ PiiScalarsRedacted(value.d, Lookup(out, key).d)

ScalarPiiRedacted ==
    \A k \in Processed : PiiScalarsRedacted(persons[k].d, anonymized_persons[k].d)

\* The text after the first '@' of an email (the email, when it has none)
AfterFirstAt(s) ==
    IF \E i \in 1..Len(s) : s[i] = "@"
    THEN SubSeq(s, (CHOOSE i \in 1..Len(s) :
                        s[i] = "@" /\ \A j \in 1..(i - 1) : s[j] # "@") + 1, Len(s))
    ELSE s

\* The text after the last '@' of an email (the email, when it has none)
AfterLastAt(s) ==
    IF \E i \in 1..Len(s) : s[i] = "@"
    THEN SubSeq(s, (CHOOSE i \in 1..Len(s) :
                        s[i] = "@" /\ \A j \in (i + 1)..Len(s) : s[j] # "@") + 1, Len(s))
    ELSE s

\* The mapping d, at some depth, holds an 'email' that is a scalar and no text
RECURSIVE HasNonTextEmail(_)
HasNonTextEmail(d) ==
    \E i \in 1..Len(d) :
        \/ d[i][2].kind = "dict" /\ HasNonTextEmail(d[i][2].d)
        \/ d[i][1] = "email" /\ d[i][2].kind \in {"num", "null"}

\* Every scalar 'email' of `in`, at any depth, is dropped and gives an
\* 'email_domain' that is the text after its first '@'
RECURSIVE DomainAfterFirstAt(_, _)
DomainAfterFirstAt(in, out) ==
    \A i \in 1..Len(in) :
        LET key == in[i][1]
            value == in[i][2]
        IN  /\ (key = "email" /\ value.kind # "dict") =>
                   /\ "email" \notin Keys(out)
                   /\ "email_domain" \in Keys(out)
                   /\ Lookup(out, "email_domain") = Str(AfterFirstAt(value.s))
            /\ (value.kind = "dict" /\ key \in Keys(out) /\ Lookup(out, key).kind = "dict") =>
                   DomainAfterFirstAt(value.d, Lookup(out, key).d)

\* C7 as stated: every scalar email is dropped and gives an email_domain that
\* is the text after the first '@' of the email.
C7_DomainAfterFirstAt ==
    \A k \in Processed : DomainAfterFirstAt(persons[k].d, anonymized_persons[k].d)

\* Every one-line text 'email' of `in`, at any depth, in a mapping with no
\* 'email_domain' key of its own, is dropped and gives an 'email_domain' that
\* is the text after its last '@', which holds no '@'
RECURSIVE DomainAfterLastAt(_, _)
DomainAfterLastAt(in, out) ==
    \A i \in 1..Len(in) :
        LET key == in[i][1]
            value == in[i][2]
        IN  /\ (key = "email" /\ value.kind = "str" /\ "\n" \notin Range(value.s)
                    /\ "email_domain" \notin Keys(in)) =>
                   /\ "email" \notin Keys(out)
                   /\ "email_domain" \in Keys(out)
                   /\ Lookup(out, "email_domain") = Str(AfterLastAt(value.s))
                   /\ "@" \notin Range(Lookup(out, "email_domain").s)
            /\ (value.kind = "dict" /\ key \in Keys(out) /\ Lookup(out, key).kind = "dict") =>
                   DomainAfterLastAt(value.d, Lookup(out, key).d)

\* C7 amended: every email that is a text of one line, in a mapping with no
\* 'email_domain' key of its own, is dropped and gives an email_domain that is
\* the text after the last '@' of the email (the whole email when it holds no
\* '@'), so no '@' is left in it; an email that is a number or null makes
\* anonymize_pii raise a TypeError.
C7_DomainAfterLastAt ==
    /\ \A k \in Processed : DomainAfterLastAt(persons[k].d, anonymized_persons[k].d)
    /\ \A k \in Processed : ~HasNonTextEmail(persons[k].d)

\* Witness: an anonymized record whose email holds two '@'
C7_Witness ==
    \E k \in Processed :
        /\ "email" \in Keys(persons[k].d)
        /\ Lookup(persons[k].d, "email").kind = "str"
        /\ Cardinality(Positions(Lookup(persons[k].d, "email").s, "@")) = 2
        /\ "\n" \notin Range(Lookup(persons[k].d, "email").s)
        /\ Lookup(anonymized_persons[k].d, "email_domain") = Str(<<"a">>)

\* The mapping d, at some depth, holds a well-formed 'birthday' after the
\* current date
RECURSIVE HasFutureBirthday(_)
HasFutureBirthday(d) ==
    \E i \in 1..Len(d) :
        \/ d[i][2].kind = "dict" /\ HasFutureBirthday(d[i][2].d)
        \/ /\ d[i][1] = "birthday"
           /\ d[i][2].kind = "str"
           /\ strptime(d[i][2].s).err = ""
           /\ ToOrdinal(strptime(d[i][2].s).ymd) > today

\* The mapping d, at some depth, holds something else that raises: an email
\* that is no text, a birthday that is no well-formed date
RECURSIVE HasOtherFault(_)
HasOtherFault(d) ==
    \E i \in 1..Len(d) :
        \/ d[i][2].kind = "dict" /\ HasOtherFault(d[i][2].d)
        \/ d[i][1] = "email" /\ d[i][2].kind \in {"num", "null"}
        \/ d[i][1] = "birthday" /\ d[i][2].kind \in {"num", "null"}
        \/ d[i][1] = "birthday" /\ d[i][2].kind = "str" /\ strptime(d[i][2].s).err # ""

\* C9: the future-date error is raised exactly for a well-formed date of
\* birth after the current date, and it leaves anonymize_pii and etl_pipeline:
\* a record with such a birthday at any depth ends the run, with no
\* anonymized output.
C9_FutureBirthdayAborts ==
    /\ \A k \in Processed : ~HasFutureBirthday(persons[k].d)
    /\ a_exc = FutureDateError =>
           /\ pipe_pc = "failed"
           /\ HasFutureBirthday(persons[a_idx].d)
    /\ (pipe_pc = "failed" /\ ~HasOtherFault(persons[a_idx].d)) =>
           /\ a_exc = FutureDateError
           /\ HasFutureBirthday(persons[a_idx].d)
    /\ (\E k \in 1..Len(persons) : HasFutureBirthday(persons[k].d)) =>
           /\ pipe_pc \in {"anonymize", "failed"}
           /\ df = <<>>
    /\ pipe_pc = "failed" => (df = <<>> /\ a_idx <= Len(persons))

\* Witness: a run that failed on a birthday two mappings deep, after it had
\* anonymized a first record
C9_Witness ==
    /\ pipe_pc = "failed"
    /\ a_exc = FutureDateError
    /\ a_idx = 2
    /\ Len(anonymized_persons) = 1
    /\ "birthday" \notin Keys(persons[a_idx].d)
    /\ \E key \in Keys(persons[a_idx].d) :
           /\ Lookup(persons[a_idx].d, key).kind = "dict"
           /\ "birthday" \notin Keys(Lookup(persons[a_idx].d, key).d)
           /\ HasFutureBirthday(Lookup(persons[a_idx].d, key).d)

=============================================================================
